---- MODULE Spec2Model ----
(***************************************************************************)
(* A model of ecmade: a serde Deserializer over an swc expression tree     *)
(* (src/src/lib.rs), its numeric coercions (src/src/number.rs) and its     *)
(* error taxonomy (src/src/error.rs).                                      *)
(***************************************************************************)
EXTENDS Integers, Sequences, FiniteSets, TLC

VARIABLES
    mode,       \* ownership of the root: "Borrowed" (from_expr) or "Owned" (from_str)
    node,       \* the expression node handed to the Deserializer
    shape,      \* the last shape requested of the Deserializer ("none" before any)
    outcome,    \* what the last operation returned; for a whole tree, what each of
                \* from_expr and from_str returned: [borrowed, owned]
    seq,        \* the Seq accessor: [mode, values]
    map,        \* the Map accessor: [mode, fields, value]
    log,        \* the operations applied to the accessor so far, oldest first
    target      \* the target type of a whole-tree deserialization

vars == <<mode, node, shape, outcome, seq, map, log, target>>

Modes == {"Borrowed", "Owned"}

None == [some |-> FALSE]
Some(x) == [some |-> TRUE, v |-> x]

(***************************************************************************)
(* Numbers.  TLC's integers are 32 bits wide, the program's go up to 128   *)
(* bits and its floating values to 2^128, so a number is kept as           *)
(*     (-1)^neg * (2^p + d + h/2),   2^0 read as 0 when p = 0,             *)
(* with d a small offset and h = 1 marking a fractional part strictly      *)
(* between 0 and 1.  p = 0 holds the small values 0..SmallMax, p > 0 the   *)
(* neighbourhood of a power of two.                                        *)
(***************************************************************************)
MaxDelta == 2

SmallValues == {0, 1, 100, 123}

Exponents == {7, 8, 15, 16, 31, 32, 63, 64, 127, 128}

Num(neg, p, d, h) == [neg |-> neg, p |-> p, d |-> d, h |-> h]

\* magnitude order; representations are canonical (the neighbourhoods are disjoint)
MagLt(a, b) ==
    \/ a.p < b.p
    \/ a.p = b.p /\ a.d < b.d
    \/ a.p = b.p /\ a.d = b.d /\ a.h < b.h

Lt(a, b) ==
    IF a.neg # b.neg THEN a.neg
    ELSE IF a.neg THEN MagLt(b, a) ELSE MagLt(a, b)

Le(a, b) == a = b \/ Lt(a, b)

Pow2(n) == 2 ^ n

\* the largest exponent gap for which the unit in the last place is computed as an integer
UlpGap == 20

\* x2 half-units rounded to a whole number of units of u, ties to the even one
RoundUnits(q, r2, u) ==
    IF r2 < u THEN q
    ELSE IF r2 > u THEN q + 1
    ELSE IF q % 2 = 0 THEN q ELSE q + 1

NearestUnits(x2, u) == RoundUnits(x2 \div (2 * u), x2 % (2 * u), u)

\* IEEE round-to-nearest-even of the magnitude 2^p + d + h/2, p >= digits, to `digits`
\* significant bits: the unit in the last place is 2^(p-digits+1) above 2^p and half
\* that below; past UlpGap the offset is far below half a unit
RoundBig(digits, p, d, h) ==
    IF p - digits >= UlpGap THEN [p |-> p, d |-> 0, h |-> 0]
    ELSE IF d >= 0
         THEN [p |-> p, h |-> 0,
               d |-> NearestUnits(2 * d + h, Pow2(p - digits + 1)) * Pow2(p - digits + 1)]
         ELSE [p |-> p, h |-> 0,
               d |-> -(NearestUnits(2 * (-d) - h, Pow2(p - digits)) * Pow2(p - digits))]

\* at or above 2^maxexp the result is infinite (kept as p = maxexp, d = 0)
Overflow(maxexp, r) == IF r.p >= maxexp THEN [p |-> maxexp, d |-> 0, h |-> 0] ELSE r

RoundMag(digits, maxexp, p, d, h) ==
    IF p < digits THEN [p |-> p, d |-> d, h |-> h]
    ELSE Overflow(maxexp, RoundBig(digits, p, d, h))

WithSign(neg, r) == Num(neg, r.p, r.d, r.h)

F64Digits == 53
F64MaxExp == 1024
F32Digits == 24
F32MaxExp == 128

\* `x as f64` of a mathematical value
ToF64(x) == WithSign(x.neg, RoundMag(F64Digits, F64MaxExp, x.p, x.d, x.h))

\* `x as f32` of an f64
ToF32(x) == WithSign(x.neg, RoundMag(F32Digits, F32MaxExp, x.p, x.d, x.h))

IntTypes == {"i8", "i16", "i32", "i64", "i128", "u8", "u16", "u32", "u64", "u128"}

Signed(ty) == ty \in {"i8", "i16", "i32", "i64", "i128"}

Bits(ty) ==
    CASE ty \in {"i8", "u8"} -> 8
      [] ty \in {"i16", "u16"} -> 16
      [] ty \in {"i32", "u32"} -> 32
      [] ty \in {"i64", "u64"} -> 64
      [] ty \in {"i128", "u128"} -> 128

\* <ty>::MAX and <ty>::MIN
IntMax(ty) == IF Signed(ty) THEN Num(FALSE, Bits(ty) - 1, -1, 0) ELSE Num(FALSE, Bits(ty), -1, 0)
IntMin(ty) == IF Signed(ty) THEN Num(TRUE, Bits(ty) - 1, 0, 0) ELSE Num(FALSE, 0, 0, 0)

\* `x as <ty>` of an f64: truncation toward zero, saturating at the bounds
Trunc(x) == IF x.p = 0 /\ x.d = 0 THEN Num(FALSE, 0, 0, 0) ELSE Num(x.neg, x.p, x.d, 0)

Saturate(t, ty) ==
    IF Lt(IntMax(ty), t) THEN IntMax(ty)
    ELSE IF Lt(t, IntMin(ty)) THEN IntMin(ty)
    ELSE t

CastInt(x, ty) == Saturate(Trunc(x), ty)

(***************************************************************************)
(* The expression tree (swc_ecma_ast), immutable.  Text is a sequence of   *)
(* one-character strings.                                                  *)
(***************************************************************************)
ArrayE(elems) == [kind |-> "Array", elems |-> elems]
ObjectE(props) == [kind |-> "Object", props |-> props]
LitE(lit) == [kind |-> "Lit", lit |-> lit]
IdentE(sym) == [kind |-> "Ident", sym |-> sym]
\* every other expression form (unary minus, call, template, ...)
OtherE(what) == [kind |-> "Other", what |-> what]

BoolL(b) == [lk |-> "Bool", b |-> b]
\* value is the f64; raw, when present, is the source text: its characters, every digit
\* written "d", and the mathematical value its digits denote
NumL(value, raw) == [lk |-> "Num", value |-> value, raw |-> raw]
RawText(text, denotes) == [text |-> text, denotes |-> denotes]
StrL(text) == [lk |-> "Str", text |-> text]
NullL == [lk |-> "Null"]
BigIntL == [lk |-> "BigInt"]
RegexL == [lk |-> "Regex"]
JSXTextL == [lk |-> "JSXText"]

\* an array slot: None is a hole, Some(ExprOrSpread) an element
Elem(expr) == Some([spread |-> FALSE, expr |-> expr])
SpreadElem(expr) == Some([spread |-> TRUE, expr |-> expr])

\* an object entry: PropOrSpread
KeyValue(key, value) == [ps |-> "Prop", prop |-> [pk |-> "KeyValue", key |-> key, value |-> value]]
\* a property that is no key-value: Shorthand, Assign, Getter, Setter, Method
OtherProp(pk) == [ps |-> "Prop", prop |-> [pk |-> pk]]
SpreadProp(expr) == [ps |-> "Spread", expr |-> expr]

\* PropName
IdentKey(sym) == [pn |-> "Ident", text |-> sym]
StrKey(text) == [pn |-> "Str", text |-> text]
\* a key that is neither: Num, Computed, BigInt
OtherKey(pn) == [pn |-> pn]

(***************************************************************************)
(* error.rs: the failure kinds.  A result is [ok |-> TRUE, ...] or         *)
(* [ok |-> FALSE, err |-> <Error variant>, ...].                           *)
(***************************************************************************)
SerdeInvalidType(unexp, expected) ==
    [ok |-> FALSE, err |-> "Serde", what |-> "invalid_type", unexp |-> unexp, expected |-> expected]
SerdeInvalidValue(unexp, expected) ==
    [ok |-> FALSE, err |-> "Serde", what |-> "invalid_value", unexp |-> unexp, expected |-> expected]
SerdeDuplicateField(field) == [ok |-> FALSE, err |-> "Serde", what |-> "duplicate_field", field |-> field]
SerdeMissingField(field) == [ok |-> FALSE, err |-> "Serde", what |-> "missing_field", field |-> field]
SerdeUnknownVariant(variant) ==
    [ok |-> FALSE, err |-> "Serde", what |-> "unknown_variant", variant |-> variant]
SerdeInvalidLength(len, expected) ==
    [ok |-> FALSE, err |-> "Serde", what |-> "invalid_length", len |-> len, expected |-> expected]
InvalidObjectKey(key) == [ok |-> FALSE, err |-> "InvalidObjectKey", key |-> key]
InvalidNumber(number) == [ok |-> FALSE, err |-> "InvalidNumber", number |-> number]
InvalidArrayElement(slot) == [ok |-> FALSE, err |-> "InvalidArrayElement", slot |-> slot]
UnexpectedBigInt == [ok |-> FALSE, err |-> "UnexpectedBigInt"]
UnexpectedJsxText == [ok |-> FALSE, err |-> "UnexpectedJsxText"]
UnexpectedRegex == [ok |-> FALSE, err |-> "UnexpectedRegex"]
UnexpectedSpread(expr) == [ok |-> FALSE, err |-> "UnexpectedSpread", expr |-> expr]
UnexpectedProp(prop) == [ok |-> FALSE, err |-> "UnexpectedProp", prop |-> prop]
UnexpectedExpr(expr) == [ok |-> FALSE, err |-> "UnexpectedExpr", expr |-> expr]
ExpectedFieldValue == [ok |-> FALSE, err |-> "ExpectedFieldValue"]

\* serde::de::Unexpected
Unexp(u) == [u |-> u]
UnexpBool(b) == [u |-> "Bool", b |-> b]
UnexpNum(u, value) == [u |-> u, value |-> value]
UnexpStr(text) == [u |-> "Str", text |-> text]

(***************************************************************************)
(* number.rs                                                               *)
(***************************************************************************)
Contains(text, ch) == \E i \in DOMAIN text : text[i] = ch

is_integer_by_value(number) == number.value.h = 0

\* a text with a negative exponent read as no integer
is_integer_no_negative_exponent(number) ==
    /\ number.raw.some
    /\ ~Contains(number.raw.v.text, ".")
    /\ ~Contains(number.raw.v.text, "-")

\* a literal without source text taken for an integer
is_integer_without_raw(number) ==
    \/ ~number.raw.some
    \/ ~Contains(number.raw.v.text, ".")

is_integer(number) ==
    /\ number.raw.some
    /\ ~Contains(number.raw.v.text, ".")

number_to_unexpected(number) ==
    IF is_integer(number)
    THEN IF Le(number.value, ToF64(IntMax("i64")))
         THEN IF Le(ToF64(IntMin("i64")), number.value)
              THEN Some(UnexpNum("Signed", CastInt(number.value, "i64")))
              ELSE None
         ELSE IF Le(number.value, ToF64(IntMax("u64"))) /\ Le(Num(FALSE, 0, 0, 0), number.value)
              THEN Some(UnexpNum("Unsigned", CastInt(number.value, "u64")))
              ELSE None
    ELSE Some(UnexpNum("Float", number.value))

\* the ten conversions share one body, which differs in the type alone
number_to(number, ty) ==
    IF is_integer(number)
    THEN IF Le(number.value, ToF64(IntMax(ty))) /\ Le(ToF64(IntMin(ty)), number.value)
         THEN Some(CastInt(number.value, ty))
         ELSE None
    ELSE None

\* error.rs: the map_or_else of Error::unexpected_lit
InvalidTypeOr(unexpected, number, expected) ==
    IF unexpected.some THEN SerdeInvalidType(unexpected.v, expected)
    ELSE InvalidNumber(number)

\* error.rs: Error::unexpected_lit
unexpected_lit(lit, expected) ==
    CASE lit.lk = "Bool" -> SerdeInvalidType(UnexpBool(lit.b), expected)
      [] lit.lk = "BigInt" -> UnexpectedBigInt
      [] lit.lk = "JSXText" -> UnexpectedJsxText
      [] lit.lk = "Null" -> SerdeInvalidType(Unexp("Option"), expected)
      [] lit.lk = "Num" -> InvalidTypeOr(number_to_unexpected(lit), lit, expected)
      [] lit.lk = "Regex" -> UnexpectedRegex
      [] lit.lk = "Str" -> SerdeInvalidType(UnexpStr(lit.text), expected)

(***************************************************************************)
(* lib.rs: the Deserializer.  A Deserializer is [mode, expr]; each         *)
(* deserialize_* method returns the failure it raises or the visitor call  *)
(* it makes, [ok |-> TRUE, visit |-> <method>, ...].                       *)
(***************************************************************************)
Deserializer(m, expr) == [mode |-> m, expr |-> expr]

Reverse(s) == [i \in 1..Len(s) |-> s[Len(s) + 1 - i]]

\* the arms every method ends with: a literal, an object, an array, anything else
mismatch(expr, expected) ==
    CASE expr.kind = "Lit" -> unexpected_lit(expr.lit, expected)
      [] expr.kind = "Object" -> SerdeInvalidType(Unexp("Map"), expected)
      [] expr.kind = "Array" -> SerdeInvalidType(Unexp("Seq"), expected)
      [] OTHER -> UnexpectedExpr(expr)

IsLit(expr, lk) == expr.kind = "Lit" /\ expr.lit.lk = lk

prop_name_to_str(prop_name) ==
    IF prop_name.pn \in {"Str", "Ident"} THEN Some(prop_name.text) ELSE None

\* Seq::new and Map::new: an owned vector is reversed, to be popped from its end
\* the owned stack left in document order, so that pop takes the last element first
SeqNewUnreversed(m, values) == [mode |-> m, values |-> values]

SeqNew(m, values) ==
    [mode |-> m, values |-> IF m = "Owned" THEN Reverse(values) ELSE values]

MapNew(m, fields) ==
    [mode |-> m, fields |-> IF m = "Owned" THEN Reverse(fields) ELSE fields, value |-> None]

deserialize_bool(de) ==
    IF IsLit(de.expr, "Bool") THEN [ok |-> TRUE, visit |-> "visit_bool", b |-> de.expr.lit.b]
    ELSE mismatch(de.expr, "boolean")

deserialize_bytes(de) ==
    IF IsLit(de.expr, "Str")
    THEN IF de.mode = "Borrowed"
         THEN [ok |-> TRUE, visit |-> "visit_borrowed_bytes", text |-> de.expr.lit.text]
         ELSE [ok |-> TRUE, visit |-> "visit_bytes", text |-> de.expr.lit.text]
    ELSE mismatch(de.expr, "bytes")

deserialize_byte_buf(de) == deserialize_bytes(de)

deserialize_char(de) ==
    IF IsLit(de.expr, "Str")
    THEN IF Len(de.expr.lit.text) = 1
         THEN [ok |-> TRUE, visit |-> "visit_char", text |-> de.expr.lit.text]
         ELSE SerdeInvalidValue(UnexpStr(de.expr.lit.text), "character")
    ELSE mismatch(de.expr, "character")

\* what visit_enum receives: serde's StrDeserializer for a bare tag, Enum for an object
StrAccess(tag) == [ea |-> "Str", key |-> tag]
\* the payload of an owned enum object handed on as a borrowed node
EnumAccessBorrowedValue(m, key, value) ==
    [ea |-> "Enum", mode |-> m, key |-> key, value |-> Deserializer("Borrowed", value)]

EnumAccess(m, key, value) == [ea |-> "Enum", mode |-> m, key |-> key, value |-> Deserializer(m, value)]

\* an object of any length read by its first entry
deserialize_enum_first_entry(de) ==
    CASE IsLit(de.expr, "Str") ->
            [ok |-> TRUE, visit |-> "visit_enum", access |-> StrAccess(de.expr.lit.text)]
      [] de.expr.kind = "Object" ->
            IF Len(de.expr.props) >= 1
            THEN IF de.expr.props[1].ps = "Prop"
                 THEN IF de.expr.props[1].prop.pk = "KeyValue"
                      THEN IF prop_name_to_str(de.expr.props[1].prop.key).some
                           THEN [ok |-> TRUE, visit |-> "visit_enum",
                                 access |-> EnumAccess(de.mode,
                                                prop_name_to_str(de.expr.props[1].prop.key).v,
                                                de.expr.props[1].prop.value)]
                           ELSE IF de.mode = "Borrowed"
                                THEN UnexpectedProp(de.expr.props[1].prop)
                                ELSE InvalidObjectKey(de.expr.props[1].prop.key)
                      ELSE UnexpectedProp(de.expr.props[1].prop)
                 ELSE UnexpectedSpread(de.expr.props[1].expr)
            ELSE SerdeInvalidLength(Len(de.expr.props), "1")
      [] de.expr.kind = "Ident" ->
            [ok |-> TRUE, visit |-> "visit_enum", access |-> StrAccess(de.expr.sym)]
      [] OTHER -> mismatch(de.expr, "enumeration")

\* the arm for a bare identifier left out
deserialize_enum_no_ident(de) ==
    CASE IsLit(de.expr, "Str") ->
            [ok |-> TRUE, visit |-> "visit_enum", access |-> StrAccess(de.expr.lit.text)]
      [] OTHER -> mismatch(de.expr, "enumeration")

deserialize_enum(de) ==
    CASE IsLit(de.expr, "Str") ->
            [ok |-> TRUE, visit |-> "visit_enum", access |-> StrAccess(de.expr.lit.text)]
      [] de.expr.kind = "Object" ->
            LET props == de.expr.props
            IN IF Len(props) = 1
               THEN IF props[1].ps = "Prop"
                    THEN IF props[1].prop.pk = "KeyValue"
                         THEN LET key == prop_name_to_str(props[1].prop.key)
                              IN IF key.some
                                 THEN [ok |-> TRUE, visit |-> "visit_enum",
                                       access |-> EnumAccess(de.mode, key.v, props[1].prop.value)]
                                 ELSE IF de.mode = "Borrowed"
                                      THEN UnexpectedProp(props[1].prop)
                                      ELSE InvalidObjectKey(props[1].prop.key)
                         ELSE UnexpectedProp(props[1].prop)
                    ELSE UnexpectedSpread(props[1].expr)
               ELSE SerdeInvalidLength(Len(props), "1")
      [] de.expr.kind = "Ident" ->
            [ok |-> TRUE, visit |-> "visit_enum", access |-> StrAccess(de.expr.sym)]
      [] OTHER -> mismatch(de.expr, "enumeration")

\* Enum::variant_seed, and serde's for a bare tag: the seed is handed the tag as a
\* string, and the accessor is the variant's
variant_seed(access) == [tag |-> access.key, variant |-> access]

deserialize_f32(de) ==
    IF IsLit(de.expr, "Num")
    THEN [ok |-> TRUE, visit |-> "visit_f32", value |-> ToF32(de.expr.lit.value)]
    ELSE mismatch(de.expr, "f32")

deserialize_f64(de) ==
    IF IsLit(de.expr, "Num")
    THEN [ok |-> TRUE, visit |-> "visit_f64", value |-> de.expr.lit.value]
    ELSE mismatch(de.expr, "f64")

\* the ok_or_else(..).and_then(..) of the integer methods
VisitIntOr(value, lit, ty) ==
    IF value.some THEN [ok |-> TRUE, visit |-> "visit_int", ty |-> ty, value |-> value.v]
    ELSE unexpected_lit(lit, ty)

\* deserialize_i8 .. deserialize_u128: one body, differing in the type alone
deserialize_int(de, ty) ==
    IF IsLit(de.expr, "Num") THEN VisitIntOr(number_to(de.expr.lit, ty), de.expr.lit, ty)
    ELSE mismatch(de.expr, ty)

deserialize_i64(de) == deserialize_int(de, "i64")

deserialize_map(de) ==
    IF de.expr.kind = "Object"
    THEN [ok |-> TRUE, visit |-> "visit_map", access |-> MapNew(de.mode, de.expr.props)]
    ELSE UnexpectedExpr(de.expr)

deserialize_newtype_struct(de) == [ok |-> TRUE, visit |-> "visit_newtype_struct", de |-> de]

deserialize_seq(de) ==
    IF de.expr.kind = "Array"
    THEN [ok |-> TRUE, visit |-> "visit_seq", access |-> SeqNew(de.mode, de.expr.elems)]
    ELSE UnexpectedExpr(de.expr)

deserialize_str(de) ==
    CASE IsLit(de.expr, "Str") ->
            IF de.mode = "Borrowed"
            THEN [ok |-> TRUE, visit |-> "visit_borrowed_str", text |-> de.expr.lit.text]
            ELSE [ok |-> TRUE, visit |-> "visit_str", text |-> de.expr.lit.text]
      [] de.expr.kind = "Ident" ->
            IF de.mode = "Borrowed"
            THEN [ok |-> TRUE, visit |-> "visit_borrowed_str", text |-> de.expr.sym]
            ELSE [ok |-> TRUE, visit |-> "visit_str", text |-> de.expr.sym]
      [] OTHER -> mismatch(de.expr, "string")

deserialize_string(de) == deserialize_str(de)
deserialize_identifier(de) == deserialize_str(de)
deserialize_struct(de) == deserialize_map(de)
deserialize_tuple(de) == deserialize_seq(de)
deserialize_tuple_struct(de) == deserialize_seq(de)

deserialize_unit(de) ==
    IF IsLit(de.expr, "Null") THEN [ok |-> TRUE, visit |-> "visit_unit"]
    ELSE mismatch(de.expr, "null")

deserialize_unit_struct(de) == deserialize_unit(de)

\* an unsupported expression taken for an absent value
deserialize_option_or_none(de) ==
    IF IsLit(de.expr, "Null") \/ de.expr.kind = "Other" THEN [ok |-> TRUE, visit |-> "visit_none"]
    ELSE [ok |-> TRUE, visit |-> "visit_some", de |-> de]

deserialize_option(de) ==
    IF IsLit(de.expr, "Null") THEN [ok |-> TRUE, visit |-> "visit_none"]
    ELSE [ok |-> TRUE, visit |-> "visit_some", de |-> de]

deserialize_any(de) ==
    CASE de.expr.kind = "Array" -> deserialize_seq(de)
      [] de.expr.kind = "Object" -> deserialize_map(de)
      [] IsLit(de.expr, "Bool") -> [ok |-> TRUE, visit |-> "visit_bool", b |-> de.expr.lit.b]
      [] IsLit(de.expr, "Num") ->
            IF is_integer(de.expr.lit) THEN deserialize_i64(de) ELSE deserialize_f64(de)
      [] IsLit(de.expr, "Null") -> [ok |-> TRUE, visit |-> "visit_none"]
      [] IsLit(de.expr, "Str") -> deserialize_str(de)
      [] de.expr.kind = "Ident" -> deserialize_str(de)
      [] OTHER -> UnexpectedExpr(de.expr)

deserialize_ignored_any(de) == deserialize_any(de)

SimpleShapes ==
    {"bool", "bytes", "byte_buf", "char", "enum", "f32", "f64", "map", "newtype_struct", "seq",
     "str", "string", "identifier", "struct", "tuple", "tuple_struct", "unit", "unit_struct",
     "option", "any", "ignored_any"}

Shapes == SimpleShapes \cup IntTypes

\* the method a shape request calls
Dispatch(de, sh) ==
    CASE sh \in IntTypes -> deserialize_int(de, sh)
      [] sh = "bool" -> deserialize_bool(de)
      [] sh = "bytes" -> deserialize_bytes(de)
      [] sh = "byte_buf" -> deserialize_byte_buf(de)
      [] sh = "char" -> deserialize_char(de)
      [] sh = "enum" -> deserialize_enum(de)
      [] sh = "f32" -> deserialize_f32(de)
      [] sh = "f64" -> deserialize_f64(de)
      [] sh = "map" -> deserialize_map(de)
      [] sh = "newtype_struct" -> deserialize_newtype_struct(de)
      [] sh = "seq" -> deserialize_seq(de)
      [] sh = "str" -> deserialize_str(de)
      [] sh = "string" -> deserialize_string(de)
      [] sh = "identifier" -> deserialize_identifier(de)
      [] sh = "struct" -> deserialize_struct(de)
      [] sh = "tuple" -> deserialize_tuple(de)
      [] sh = "tuple_struct" -> deserialize_tuple_struct(de)
      [] sh = "unit" -> deserialize_unit(de)
      [] sh = "unit_struct" -> deserialize_unit_struct(de)
      [] sh = "option" -> deserialize_option(de)
      [] sh = "any" -> deserialize_any(de)
      [] sh = "ignored_any" -> deserialize_ignored_any(de)


(***************************************************************************)
(* lib.rs: the Seq accessor.  Its state is [mode, values]; an operation    *)
(* returns the state it leaves and its result: [ok, some |-> FALSE] when   *)
(* exhausted, [ok, some |-> TRUE, ...] for a yield, or a failure.          *)
(***************************************************************************)
Exhausted == [ok |-> TRUE, some |-> FALSE]
Child(de) == [ok |-> TRUE, some |-> TRUE, de |-> de]
Yield(visit) == [ok |-> TRUE, some |-> TRUE, v |-> visit]

Last(s) == s[Len(s)]
Front(s) == SubSeq(s, 1, Len(s) - 1)

\* a hole read as a null element
SeqPullHoleAsNull(s) ==
    IF Len(s.values) = 0 THEN [seq |-> s, res |-> Exhausted]
    ELSE IF s.mode = "Borrowed"
         THEN [seq |-> [s EXCEPT !.values = Tail(@)],
               res |-> Child(Deserializer("Borrowed",
                            IF s.values[1].some THEN s.values[1].v.expr ELSE LitE(NullL)))]
         ELSE [seq |-> [s EXCEPT !.values = Front(@)],
               res |-> Child(Deserializer("Owned",
                            IF Last(s.values).some THEN Last(s.values).v.expr ELSE LitE(NullL)))]

\* next_element_seed up to the seed: the cursor step and the child Deserializer
SeqPull(s) ==
    IF s.mode = "Borrowed"
    THEN IF Len(s.values) = 0 THEN [seq |-> s, res |-> Exhausted]
         ELSE IF ~s.values[1].some
              THEN [seq |-> s, res |-> InvalidArrayElement(s.values[1])]
              ELSE [seq |-> [s EXCEPT !.values = Tail(@)],
                    res |-> Child(Deserializer("Borrowed", s.values[1].v.expr))]
    ELSE IF Len(s.values) = 0 THEN [seq |-> s, res |-> Exhausted]
         ELSE IF ~Last(s.values).some
              THEN [seq |-> [s EXCEPT !.values = Front(@)], res |-> InvalidArrayElement(None)]
              ELSE [seq |-> [s EXCEPT !.values = Front(@)],
                    res |-> Child(Deserializer("Owned", Last(s.values).v.expr))]

\* .map(Some) of the seed's result
MapSome(r) == IF r.ok THEN Yield(r) ELSE r

\* seed.deserialize(Deserializer { expr }), the seed asking for the shape sh
SeedElement(r, sh) ==
    IF r.res.ok /\ r.res.some THEN [seq |-> r.seq, res |-> MapSome(Dispatch(r.res.de, sh))]
    ELSE r

next_element_seed(s, sh) == SeedElement(SeqPull(s), sh)

seq_size_hint(s) == Len(s.values)

(***************************************************************************)
(* lib.rs: the Map accessor.  Its state is [mode, fields, value].          *)
(***************************************************************************)
KeyOf(text) == [ok |-> TRUE, some |-> TRUE, key |-> text]

SerdeUnknownField(field) == [ok |-> FALSE, err |-> "Serde", what |-> "unknown_field", field |-> field]

\* the key of a key-value entry, or the failure of the mode
KeyOrElse(key, failure) == IF key.some THEN KeyOf(key.v) ELSE failure

\* a pending value that a later key does not replace
BorrowedKeyKeepsPending(m, field) ==
    IF field.ps = "Prop"
    THEN IF field.prop.pk = "KeyValue"
         THEN [map |-> [m EXCEPT !.value = IF @.some THEN @
                                           ELSE Some(Deserializer("Borrowed", field.prop.value)),
                                 !.fields = IF prop_name_to_str(field.prop.key).some
                                            THEN Tail(@) ELSE @],
               res |-> KeyOrElse(prop_name_to_str(field.prop.key), UnexpectedProp(field.prop))]
         ELSE [map |-> m, res |-> UnexpectedProp(field.prop)]
    ELSE [map |-> m, res |-> UnexpectedSpread(field.expr)]

\* the borrowed arm: the cursor moves only once the key is resolved
BorrowedKey(m, field) ==
    IF field.ps = "Prop"
    THEN IF field.prop.pk = "KeyValue"
         THEN [map |-> [m EXCEPT !.value = Some(Deserializer("Borrowed", field.prop.value)),
                                 !.fields = IF prop_name_to_str(field.prop.key).some
                                            THEN Tail(@) ELSE @],
               res |-> KeyOrElse(prop_name_to_str(field.prop.key), UnexpectedProp(field.prop))]
         ELSE [map |-> m, res |-> UnexpectedProp(field.prop)]
    ELSE [map |-> m, res |-> UnexpectedSpread(field.expr)]

\* the owned arm: the entry is popped first
OwnedKey(m, field) ==
    IF field.ps = "Prop"
    THEN IF field.prop.pk = "KeyValue"
         THEN [map |-> [m EXCEPT !.value = Some(Deserializer("Owned", field.prop.value)),
                                 !.fields = Front(@)],
               res |-> KeyOrElse(prop_name_to_str(field.prop.key),
                                 InvalidObjectKey(field.prop.key))]
         ELSE [map |-> [m EXCEPT !.fields = Front(@)], res |-> UnexpectedProp(field.prop)]
    ELSE [map |-> [m EXCEPT !.fields = Front(@)], res |-> UnexpectedSpread(field.expr)]

\* next_key_seed up to the seed
MapPullKey(m) ==
    IF Len(m.fields) = 0 THEN [map |-> m, res |-> Exhausted]
    ELSE IF m.mode = "Borrowed" THEN BorrowedKey(m, m.fields[1])
    ELSE OwnedKey(m, Last(m.fields))

\* seed.deserialize(key_str.into_deserializer()): the key seed is handed the key as a
\* string and accepts the keys it knows
SeedKey(r, known) ==
    IF r.res.ok /\ r.res.some /\ r.res.key \notin known
    THEN [map |-> r.map, res |-> SerdeUnknownField(r.res.key)]
    ELSE r

next_key_seed(m, known) == SeedKey(MapPullKey(m), known)

\* next_value_seed up to the seed: self.value.take()
MapPullValue(m) ==
    IF m.value.some
    THEN [map |-> [m EXCEPT !.value = None], res |-> Child(m.value.v)]
    ELSE [map |-> m, res |-> ExpectedFieldValue]

SeedValue(r, sh) ==
    IF r.res.ok THEN [map |-> r.map, res |-> Dispatch(r.res.de, sh)] ELSE r

next_value_seed(m, sh) == SeedValue(MapPullValue(m), sh)

map_size_hint(m) == Len(m.fields)

(***************************************************************************)
(* lib.rs: the Enum accessor's variant methods, beside those of the bare   *)
(* tag serde builds from a string (a unit-only variant).                   *)
(***************************************************************************)
\* a null payload taken for no payload
unit_variant_null_ok(access) ==
    IF access.ea = "Str" \/ IsLit(access.value.expr, "Null") THEN [ok |-> TRUE]
    ELSE UnexpectedExpr(access.value.expr)

unit_variant(access) ==
    IF access.ea = "Str" THEN [ok |-> TRUE]
    ELSE UnexpectedExpr(access.value.expr)

struct_variant(access) ==
    IF access.ea = "Str" THEN SerdeInvalidType(Unexp("UnitVariant"), "struct variant")
    ELSE deserialize_map(access.value)

newtype_variant_seed(access) ==
    IF access.ea = "Str" THEN SerdeInvalidType(Unexp("UnitVariant"), "newtype variant")
    ELSE Child(access.value)

(***************************************************************************)
(* The target types of from_expr and from_str: T: serde::Deserialize.      *)
(* A type asks the Deserializer for its shape and its visitor builds the   *)
(* value from the call it receives, pulling the accessors to the end or to *)
(* the first failure.  The types are those of the tests (TestStruct,       *)
(* TestEnum, serde_json::Value) and their parts, and the borrowed-only     *)
(* &str and &[u8].                                                         *)
(***************************************************************************)
\* a type by name: bool, f64, String, &str, &[u8], Value, IgnoredAny, TestEnum,
\* TestStruct; an integer type; Option and Vec of a type
Ty(t) == [t |-> t]
TInt(ty) == [t |-> "int", ty |-> ty]
TyOf(t, inner) == [t |-> t, of |-> inner]

Orange == <<"O", "r", "a", "n", "g", "e">>
Apple == <<"A", "p", "p", "l", "e">>
Pear == <<"P", "e", "a", "r">>
FieldName == <<"n", "a", "m", "e">>
Foo == <<"f", "o", "o">>
Bar == <<"b", "a", "r">>
Qux == <<"q", "u", "x">>
Fruit == <<"f", "r", "u", "i", "t">>

\* the map with no entry
NoFields == [k \in {} |-> Ty("bool")]

\* the struct of a field list: its names in declaration order and their types
StructOf(order, fields) == [order |-> order, fields |-> fields]

\* the fields of TestStruct; Cow<str> without #[serde(borrow)] is read as a String
TestStructDesc ==
    StructOf(<<Foo, Bar, Qux, Fruit>>,
             (Foo :> TyOf("Option", TInt("u64"))) @@ (Bar :> TyOf("Vec", Ty("bool")))
                @@ (Qux :> Ty("String")) @@ (Fruit :> TyOf("Vec", Ty("TestEnum"))))

VariantDesc(tag) ==
    IF tag = Pear THEN StructOf(<<FieldName>>, (FieldName :> Ty("String")))
    ELSE StructOf(<<>>, NoFields)

Variants == {Orange, Apple, Pear}

\* the method a type's Deserialize impl calls
ShapeOf(ty) ==
    CASE ty.t = "bool" -> "bool"
      [] ty.t = "int" -> ty.ty
      [] ty.t = "f64" -> "f64"
      [] ty.t = "String" -> "string"
      [] ty.t = "&str" -> "str"
      [] ty.t = "&[u8]" -> "bytes"
      [] ty.t = "Option" -> "option"
      [] ty.t = "Vec" -> "seq"
      [] ty.t = "Value" -> "any"
      [] ty.t = "IgnoredAny" -> "ignored_any"
      [] ty.t = "TestEnum" -> "enum"
      [] ty.t = "TestStruct" -> "struct"

Ok(v) == [ok |-> TRUE, v |-> v]

\* a value: what it holds, under the name of its type or variant.  The values of the
\* types are bool, int, f64, String, &str, &[u8], None, Some, Vec, TestEnum, TestStruct,
\* IgnoredAny; those of serde_json::Value are Null, Bool, Number, JString, Array,
\* Object, a Number being PosInt(u64), NegInt(i64) or Float(f64)
Val(t, x) == t :> x
Unit == <<>>
IntOf(ty, value) == [ty |-> ty, value |-> value]
NumberOf(n, value) == [n |-> n, value |-> value]
VariantOf(tag, fields) == [variant |-> tag, fields |-> fields]

\* the value of a result that holds what a value of type t holds
OkVal(t, r) == IF r.ok THEN Ok(Val(t, r.v)) ELSE r

\* Value's visit_i64 and visit_f64
JFromI64(value) == Val("Number", NumberOf(IF value.neg THEN "NegInt" ELSE "PosInt", value))
JFromF64(value) ==
    IF value.p < F64MaxExp THEN Val("Number", NumberOf("Float", value)) ELSE Val("Null", Unit)

\* what a visitor answers to a call it does not take
Unexpected(r) ==
    CASE r.visit = "visit_bool" -> UnexpBool(r.b)
      [] r.visit = "visit_int" -> UnexpNum(IF Signed(r.ty) THEN "Signed" ELSE "Unsigned", r.value)
      [] r.visit \in {"visit_f32", "visit_f64"} -> UnexpNum("Float", r.value)
      [] r.visit \in {"visit_str", "visit_borrowed_str"} -> UnexpStr(r.text)
      [] r.visit \in {"visit_bytes", "visit_borrowed_bytes"} -> [u |-> "Bytes", text |-> r.text]
      [] r.visit = "visit_char" -> [u |-> "Char", text |-> r.text]
      [] r.visit \in {"visit_none", "visit_some"} -> Unexp("Option")
      [] r.visit = "visit_unit" -> Unexp("Unit")
      [] r.visit = "visit_newtype_struct" -> Unexp("NewtypeStruct")
      [] r.visit = "visit_seq" -> Unexp("Seq")
      [] r.visit = "visit_map" -> Unexp("Map")
      [] r.visit = "visit_enum" -> Unexp("Enum")

Refuse(r, expected) == SerdeInvalidType(Unexpected(r), expected)


\* what a map visitor does with the entries: the type of each named field, the type of
\* every other value, and whether the others are kept
MapPlan(fields, rest, keep) == [fields |-> fields, rest |-> rest, keep |-> keep]
StructPlan(desc) == MapPlan(desc.fields, Ty("IgnoredAny"), FALSE)
ValueType(plan, key) == IF key \in DOMAIN plan.fields THEN plan.fields[key] ELSE plan.rest

RECURSIVE Deserialize(_, _)
RECURSIVE SeqLoop(_, _, _)
RECURSIVE MapLoop(_, _, _)

\* while let Some(value) = seq.next_element()? { values.push(value) }
SeqOnElement(ty, s, e, acc) == IF e.ok THEN SeqLoop(ty, s, Append(acc, e.v)) ELSE e

SeqOnPull(ty, p, acc) ==
    IF ~p.res.ok THEN p.res
    ELSE IF ~p.res.some THEN Ok(acc)
    ELSE SeqOnElement(ty, p.seq, Deserialize(ty, p.res.de), acc)

SeqLoop(ty, s, acc) == SeqOnPull(ty, SeqPull(s), acc)

\* while let Some(key) = map.next_key()? { ... map.next_value()? ... }
MapOnEntry(plan, key, m, e, acc) ==
    IF ~e.ok THEN e
    ELSE MapLoop(plan, m, IF key \in DOMAIN plan.fields \/ plan.keep
                          THEN (key :> e.v) @@ acc ELSE acc)

MapOnValue(plan, key, pv, acc) ==
    IF ~pv.res.ok THEN pv.res
    ELSE MapOnEntry(plan, key, pv.map, Deserialize(ValueType(plan, key), pv.res.de), acc)

MapOnKey(plan, k, acc) ==
    IF ~k.res.ok THEN k.res
    ELSE IF ~k.res.some THEN Ok(acc)
    ELSE IF k.res.key \in DOMAIN plan.fields /\ k.res.key \in DOMAIN acc
         THEN SerdeDuplicateField(k.res.key)
         ELSE MapOnValue(plan, k.res.key, MapPullValue(k.map), acc)

MapLoop(plan, m, acc) == MapOnKey(plan, MapPullKey(m), acc)

\* the end of a derived visit_map: a field not met is None if an Option, else missing
Missing(desc, got, i) ==
    desc.order[i] \notin DOMAIN got /\ desc.fields[desc.order[i]].t # "Option"

FirstMissing(desc, got) ==
    desc.order[CHOOSE i \in 1..Len(desc.order) :
                    Missing(desc, got, i) /\ \A j \in 1..(i - 1) : ~Missing(desc, got, j)]

Finish(desc, got) ==
    IF ~got.ok THEN got
    ELSE IF \E i \in 1..Len(desc.order) : Missing(desc, got.v, i)
         THEN SerdeMissingField(FirstMissing(desc, got.v))
         ELSE Ok([k \in DOMAIN desc.fields |-> IF k \in DOMAIN got.v THEN got.v[k] ELSE Val("None", Unit)])

\* a derived struct's visit_map
VisitFields(desc, access) == Finish(desc, MapLoop(StructPlan(desc), access, NoFields))

\* the value v when r succeeded
Wrapped(r, v) == IF r.ok THEN Ok(v) ELSE r

\* serde's visitors of bool, the integers, f64 and String, which takes a string in
\* either form, and of &str and &[u8], which take only what lives as long as the input
VisitScalar(ty, r) ==
    CASE ty.t = "bool" /\ r.visit = "visit_bool" -> Ok(Val("bool", r.b))
      [] ty.t = "int" /\ r.visit = "visit_int" /\ r.ty = ty.ty ->
            Ok(Val("int", IntOf(r.ty, r.value)))
      [] ty.t = "f64" /\ r.visit = "visit_f64" -> Ok(Val("f64", r.value))
      [] ty.t = "String" /\ r.visit \in {"visit_str", "visit_borrowed_str"} ->
            Ok(Val("String", r.text))
      [] ty.t = "&str" /\ r.visit = "visit_borrowed_str" -> Ok(Val("&str", r.text))
      [] ty.t = "&[u8]" /\ r.visit \in {"visit_borrowed_bytes", "visit_borrowed_str"} ->
            Ok(Val("&[u8]", r.text))
      [] OTHER -> Refuse(r, ty.t)

VisitOption(ty, r) ==
    CASE r.visit \in {"visit_none", "visit_unit"} -> Ok(Val("None", Unit))
      [] r.visit = "visit_some" -> OkVal("Some", Deserialize(ty, r.de))
      [] OTHER -> Refuse(r, "option")

VisitVec(ty, r) ==
    IF r.visit = "visit_seq" THEN OkVal("Vec", SeqLoop(ty, r.access, <<>>))
    ELSE Refuse(r, "a sequence")

\* serde_json's ValueVisitor
VisitValue(r) ==
    CASE r.visit = "visit_bool" -> Ok(Val("Bool", r.b))
      [] r.visit = "visit_int" -> Ok(JFromI64(r.value))
      [] r.visit = "visit_f64" -> Ok(JFromF64(r.value))
      [] r.visit \in {"visit_str", "visit_borrowed_str"} -> Ok(Val("JString", r.text))
      [] r.visit \in {"visit_none", "visit_unit"} -> Ok(Val("Null", Unit))
      [] r.visit = "visit_some" -> Deserialize(Ty("Value"), r.de)
      [] r.visit = "visit_seq" -> OkVal("Array", SeqLoop(Ty("Value"), r.access, <<>>))
      [] r.visit = "visit_map" ->
            OkVal("Object", MapLoop(MapPlan(NoFields, Ty("Value"), TRUE), r.access, NoFields))
      [] OTHER -> Refuse(r, "any valid JSON value")

IgnoredVariant(r) == IF r.ok THEN Deserialize(Ty("IgnoredAny"), r.de) ELSE r

\* serde's IgnoredAny
VisitIgnoredAny(r) ==
    CASE r.visit \in {"visit_some", "visit_newtype_struct"} -> Deserialize(Ty("IgnoredAny"), r.de)
      [] r.visit = "visit_seq" -> Wrapped(SeqLoop(Ty("IgnoredAny"), r.access, <<>>), Val("IgnoredAny", Unit))
      [] r.visit = "visit_map" ->
            Wrapped(MapLoop(MapPlan(NoFields, Ty("IgnoredAny"), FALSE), r.access, NoFields),
                    Val("IgnoredAny", Unit))
      [] r.visit = "visit_enum" ->
            IgnoredVariant(newtype_variant_seed(variant_seed(r.access).variant))
      [] OTHER -> Ok(Val("IgnoredAny", Unit))

VariantValue(tag, r) == IF r.ok THEN Ok(Val("TestEnum", VariantOf(tag, r.v))) ELSE r

StructVariant(tag, r) ==
    IF ~r.ok THEN r
    ELSE IF r.visit = "visit_map"
         THEN VariantValue(tag, VisitFields(VariantDesc(tag), r.access))
         ELSE Refuse(r, "struct variant")

\* the derived visit_enum of TestEnum: the tag names the variant, then the variant's
\* method is called
VisitVariant(vs) ==
    IF vs.tag \notin Variants THEN SerdeUnknownVariant(vs.tag)
    ELSE IF vs.tag = Orange THEN Wrapped(unit_variant(vs.variant), Val("TestEnum", VariantOf(Orange, NoFields)))
    ELSE StructVariant(vs.tag, struct_variant(vs.variant))

VisitTestEnum(r) ==
    IF r.visit = "visit_enum" THEN VisitVariant(variant_seed(r.access))
    ELSE Refuse(r, "enum TestEnum")

\* the derived visitor of TestStruct; deserialize_struct only ever calls visit_map
VisitTestStruct(r) ==
    IF r.visit = "visit_map" THEN OkVal("TestStruct", VisitFields(TestStructDesc, r.access))
    ELSE Refuse(r, "struct TestStruct")

Visit(ty, r) ==
    IF ~r.ok THEN r
    ELSE CASE ty.t \in {"bool", "int", "f64", "String", "&str", "&[u8]"} -> VisitScalar(ty, r)
           [] ty.t = "Option" -> VisitOption(ty.of, r)
           [] ty.t = "Vec" -> VisitVec(ty.of, r)
           [] ty.t = "Value" -> VisitValue(r)
           [] ty.t = "IgnoredAny" -> VisitIgnoredAny(r)
           [] ty.t = "TestEnum" -> VisitTestEnum(r)
           [] ty.t = "TestStruct" -> VisitTestStruct(r)

\* T::deserialize(Deserializer { expr })
Deserialize(ty, de) == Visit(ty, Dispatch(de, ShapeOf(ty)))


(***************************************************************************)
(* Inputs.                                                                 *)
(***************************************************************************)
\* the values a numeric literal denotes: the small ones, whole or with a fractional
\* part, and the neighbourhood of each integer bound, on both sides of zero
NumValues ==
    ({Num(neg, 0, d, h) : neg \in BOOLEAN, d \in SmallValues, h \in {0, 1}}
        \ {Num(TRUE, 0, 0, 0)})
    \cup {Num(neg, p, d, 0) : neg \in BOOLEAN, p \in Exponents, d \in (-MaxDelta)..MaxDelta}

\* the source text of a numeric literal, every digit written "d": 1, 1.0, 1e2, 1e-1
RawTexts == {<<"d">>, <<"d", ".", "d">>, <<"d", "e", "d">>, <<"d", "e", "-", "d">>}

\* a text with neither a point nor a negative exponent denotes a whole number
Denotes(text, v) == ~Contains(text, ".") /\ ~Contains(text, "-") => v.h = 0

\* the parser's Number node: value is the f64 nearest to the value the text denotes;
\* raw is absent in a node built by hand
NumberNodes ==
    {LitE(NumL(ToF64(x[1]), Some(RawText(x[2], x[1])))) :
        x \in {y \in NumValues \X RawTexts : Denotes(y[2], y[1])}}
    \cup {LitE(NumL(ToF64(v), None)) : v \in NumValues}

TextA == <<"A">>
TextB == <<"B">>
Texts == {<<>>, TextA, TextB, <<"A", "B">>}

Num1 == LitE(NumL(Num(FALSE, 0, 1, 0), Some(RawText(<<"d">>, Num(FALSE, 0, 1, 0)))))
Num1p5 == LitE(NumL(Num(FALSE, 0, 1, 1), Some(RawText(<<"d", ".", "d">>, Num(FALSE, 0, 1, 1)))))

\* the leaves of a tree
Leaves ==
    {LitE(BoolL(TRUE)), LitE(BoolL(FALSE)), LitE(NullL), LitE(BigIntL), LitE(RegexL),
     LitE(JSXTextL), Num1, Num1p5, OtherE("Unary")}
    \cup {LitE(StrL(t)) : t \in Texts} \cup {IdentE(t) : t \in {TextA, TextB}}

\* object entries over the leaves
Entries ==
    {KeyValue(k, e) : k \in {IdentKey(TextA), StrKey(TextB), OtherKey("Num")}, e \in {Num1, LitE(NullL), IdentE(TextA)}}
    \cup {OtherProp("Shorthand"), OtherProp("Method"), OtherProp("Getter"),
          OtherProp("Setter"), SpreadProp(IdentE(TextA))}

\* the arrays and objects the dispatcher is asked about
SmallComposites ==
    {ArrayE(<<>>), ObjectE(<<>>)}
    \cup {ArrayE(<<s>>) : s \in {None, Elem(Num1)}}
    \cup {ObjectE(<<e>>) : e \in Entries}
    \cup {ObjectE(<<KeyValue(IdentKey(TextA), Num1), e>>) : e \in Entries}

DispatchNodes == NumberNodes \cup Leaves \cup SmallComposites

NoOutcome == [ok |-> TRUE, visit |-> "none"]
Idle == "idle"

(***************************************************************************)
(* Spec: one Deserializer over one node, asked for any shape.              *)
(***************************************************************************)
Init ==
    /\ mode \in Modes
    /\ node \in DispatchNodes
    /\ shape = "none"
    /\ outcome = NoOutcome
    /\ seq = Idle /\ map = Idle /\ log = <<>> /\ target = Idle

\* T::deserialize(Deserializer { expr }) with T asking for the shape sh; the call
\* takes the Deserializer by value
Request(sh) ==
    /\ shape = "none"
    /\ shape' = sh
    /\ outcome' = Dispatch(Deserializer(mode, node), sh)
    /\ UNCHANGED <<mode, node, seq, map, log, target>>

Next == \E sh \in Shapes : Request(sh)

Spec == Init /\ [][Next]_vars


(***************************************************************************)
(* SpecSeq: one Seq accessor, as deserialize_seq hands it to visit_seq,    *)
(* pulled by a visitor.                                                    *)
(***************************************************************************)
MaxSlots == 3
MaxPulls == 4

SeqSlots == {None, Elem(Num1), Elem(LitE(BoolL(TRUE))), SpreadElem(IdentE(TextA))}

SeqsUpTo(S, n) == UNION {[1..k -> S] : k \in 0..n}

\* the shapes an element or value seed asks for
SeedShapes == {"any", "bool"}

InitSeq ==
    /\ mode \in Modes
    /\ node \in {ArrayE(elems) : elems \in SeqsUpTo(SeqSlots, MaxSlots)}
    /\ shape = "seq"
    /\ outcome = deserialize_seq(Deserializer(mode, node))
    /\ seq = outcome.access
    /\ map = Idle /\ log = <<>> /\ target = Idle

SeqStep(r, sh) ==
    /\ seq' = r.seq
    /\ outcome' = r.res
    /\ log' = Append(log, [op |-> "next_element", before |-> seq, res |-> r.res, sh |-> sh])
    /\ UNCHANGED <<mode, node, shape, map, target>>

NextElement == \E sh \in SeedShapes : Len(log) < MaxPulls /\ SeqStep(next_element_seed(seq, sh), sh)

NextSeq == NextElement

SpecSeq == InitSeq /\ [][NextSeq]_vars

(***************************************************************************)
(* SpecMap: one Map accessor, as deserialize_map hands it to visit_map.    *)
(***************************************************************************)
MaxEntries == 2
MaxOps == 4

MapEntries ==
    {KeyValue(IdentKey(TextA), Num1), KeyValue(StrKey(TextB), LitE(BoolL(TRUE))),
     KeyValue(OtherKey("Num"), LitE(NullL)), KeyValue(OtherKey("Computed"), Num1),
     OtherProp("Shorthand"), OtherProp("Method"), OtherProp("Getter"), OtherProp("Setter"),
     SpreadProp(IdentE(TextA))}

\* the keys a key seed knows: every key, or the fields of a struct that denies others
KnownKeys == {Texts, {TextA}}

InitMap ==
    /\ mode \in Modes
    /\ node \in {ObjectE(props) : props \in SeqsUpTo(MapEntries, MaxEntries)}
    /\ shape = "map"
    /\ outcome = deserialize_map(Deserializer(mode, node))
    /\ map = outcome.access
    /\ seq = Idle /\ log = <<>> /\ target = Idle

MapStep(op, r) ==
    /\ map' = r.map
    /\ outcome' = r.res
    /\ log' = Append(log, [op |-> op, before |-> map, res |-> r.res])
    /\ UNCHANGED <<mode, node, shape, seq, target>>

NextKey == \E known \in KnownKeys : Len(log) < MaxOps /\ MapStep("next_key", next_key_seed(map, known))

NextValue == \E sh \in SeedShapes : Len(log) < MaxOps /\ MapStep("next_value", next_value_seed(map, sh))

NextMap == NextKey \/ NextValue

SpecMap == InitMap /\ [][NextMap]_vars

(***************************************************************************)
(* Claims on the numeric shapes.                                           *)
(***************************************************************************)
IsNumber == IsLit(node, "Num")

\* the literal's text has no decimal point
NoPoint == IsNumber /\ node.lit.raw.some /\ ~Contains(node.lit.raw.v.text, ".")

HasPoint == IsNumber /\ node.lit.raw.some /\ Contains(node.lit.raw.v.text, ".")

\* the value the literal's text denotes
Denoted == node.lit.raw.v.denotes

\* one past a bound, away from the range
AboveMax(ty) == LET m == IntMax(ty) IN Num(FALSE, m.p, m.d + 1, 0)
BelowMin(ty) == LET m == IntMin(ty) IN Num(TRUE, m.p, m.d + 1, 0)

RangeError(r) ==
    /\ ~r.ok
    /\ \/ r.err = "Serde" /\ r.what = "invalid_type" /\ r.unexp.u \in {"Signed", "Unsigned", "Float"}
       \/ r.err = "InvalidNumber"

Accepted(r, ty, v) == r.ok /\ r.visit = "visit_int" /\ r.ty = ty /\ r.value = v

\* C3: for each integer width, a literal with no decimal point denoting MIN or MAX is
\* accepted and yields exactly that value, and one denoting MAX+1 or MIN-1 is rejected
\* with a range error.
C3_BoundsExact ==
    shape \in IntTypes /\ NoPoint =>
        /\ Denoted \in {IntMax(shape), IntMin(shape)} => Accepted(outcome, shape, Denoted)
        /\ Denoted \in {AboveMax(shape), BelowMin(shape)} => RangeError(outcome)

\* C4: a literal whose text has a decimal point is rejected by every integer shape,
\* whatever its value, and every numeric literal is accepted by the f32 and f64 shapes.
C4_PointRejectedFloatAccepts ==
    /\ shape \in IntTypes /\ HasPoint => RangeError(outcome)
    /\ shape = "f32" /\ IsNumber =>
            outcome.ok /\ outcome.visit = "visit_f32" /\ outcome.value = ToF32(node.lit.value)
    /\ shape = "f64" /\ IsNumber =>
            outcome.ok /\ outcome.visit = "visit_f64" /\ outcome.value = node.lit.value

\* 1.0 asked as u8 is refused, and the same literal asked as f64 is 1.0
C4_Witness ==
    /\ HasPoint /\ Denoted = Num(FALSE, 0, 1, 0)
    /\ shape = "u8" /\ ~outcome.ok

(***************************************************************************)
(* Claims on the Seq and Map accessors.                                    *)
(***************************************************************************)
LastOp == Last(log)

\* the accessor as the last operation left it is the current one; the slot or entry
\* first in line before it is counted from the end of the node's own list
FirstSlotBefore == node.elems[Len(node.elems) - seq_size_hint(LastOp.before) + 1]
FirstEntryBefore == node.props[Len(node.props) - map_size_hint(LastOp.before) + 1]

Fails(r, err) == ~r.ok /\ r.err = err

PulledAtHole ==
    /\ log # <<>>
    /\ LastOp.op = "next_element"
    /\ seq_size_hint(LastOp.before) > 0
    /\ ~FirstSlotBefore.some

\* C7: a pull whose first remaining slot is a hole fails with InvalidArrayElement, in
\* both ownership modes; the hole is not yielded as null or as absent, nor skipped.
C7_HoleFails == PulledAtHole => LastOp.res = InvalidArrayElement(None)

\* an owned pull that reached a hole after yielding an element
C7_Witness ==
    /\ PulledAtHole /\ mode = "Owned" /\ Len(log) >= 2
    /\ log[1].res.ok /\ log[1].res.some
    /\ Fails(outcome, "InvalidArrayElement")

\* C10: a pull with a slot remaining consumes exactly the first remaining slot, whether
\* it yields or fails: the size hint drops by one, and the k-th pull yields the k-th
\* element of the array; with no slot remaining a pull is exhausted and the hint is 0.
C10_PullConsumesFirst ==
    log # <<>> /\ LastOp.op = "next_element" =>
        IF seq_size_hint(LastOp.before) > 0
        THEN /\ seq_size_hint(seq) = seq_size_hint(LastOp.before) - 1
             /\ LastOp.res.ok =>
                    /\ LastOp.res.some
                    /\ node.elems[Len(log)].some
                    /\ LastOp.res.v =
                         Dispatch(Deserializer(mode, node.elems[Len(log)].v.expr), LastOp.sh)
        ELSE LastOp.res = Exhausted /\ seq_size_hint(seq) = 0

AskedKey ==
    /\ log # <<>>
    /\ LastOp.op = "next_key"
    /\ map_size_hint(LastOp.before) > 0

\* C8: next_key classifies a malformed next entry alike in both ownership modes: a
\* spread fails with UnexpectedSpread, a property that is no key-value with
\* UnexpectedProp, a key-value whose key is neither identifier nor string with
\* InvalidObjectKey.
C8_KeyClassification ==
    AskedKey =>
        /\ FirstEntryBefore.ps = "Spread" => Fails(LastOp.res, "UnexpectedSpread")
        /\ FirstEntryBefore.ps = "Prop" /\ FirstEntryBefore.prop.pk # "KeyValue" =>
                Fails(LastOp.res, "UnexpectedProp")
        /\ /\ FirstEntryBefore.ps = "Prop"
           /\ FirstEntryBefore.prop.pk = "KeyValue"
           /\ FirstEntryBefore.prop.key.pn \notin {"Ident", "Str"}
           => Fails(LastOp.res, "InvalidObjectKey")

\* the operation before the last was a next_key that yielded a key
KeyPending ==
    /\ Len(log) >= 2
    /\ log[Len(log) - 1].op = "next_key"
    /\ log[Len(log) - 1].res.ok
    /\ log[Len(log) - 1].res.some

\* C9: next_value succeeds only right after a next_key that yielded a key; in every
\* other state (before any next_key, after next_key returned exhausted or failed, right
\* after a next_value) it fails with ExpectedFieldValue.
C9_ValueNeedsPendingKey ==
    log # <<>> /\ LastOp.op = "next_value" /\ ~KeyPending => LastOp.res = ExpectedFieldValue

(***************************************************************************)
(* Claims on the enum shape.                                               *)
(***************************************************************************)
ResolvesTo(r, tag) == r.ok /\ r.visit = "visit_enum" /\ variant_seed(r.access).tag = tag

PlainEntry(entry) ==
    /\ entry.ps = "Prop"
    /\ entry.prop.pk = "KeyValue"
    /\ entry.prop.key.pn \in {"Ident", "Str"}

\* C5: asked for an enum, a string literal or a bare identifier resolves to the tag
\* equal to its text; an object with exactly one plain key-value entry (its key an
\* identifier or a string) resolves to the key's text as tag and the entry's value as
\* payload, in the mode of the object; an object with no entry or with two or more
\* fails with invalid_length, expected 1.
C5_EnumTagResolution ==
    shape = "enum" =>
        /\ IsLit(node, "Str") => ResolvesTo(outcome, node.lit.text) /\ outcome.access.ea = "Str"
        /\ node.kind = "Ident" => ResolvesTo(outcome, node.sym) /\ outcome.access.ea = "Str"
        /\ node.kind = "Object" /\ Len(node.props) = 1 /\ PlainEntry(node.props[1]) =>
                /\ ResolvesTo(outcome, node.props[1].prop.key.text)
                /\ outcome.access.ea = "Enum"
                /\ variant_seed(outcome.access).variant.value =
                        Deserializer(mode, node.props[1].prop.value)
        /\ node.kind = "Object" /\ Len(node.props) # 1 =>
                outcome = SerdeInvalidLength(Len(node.props), "1")

\* an owned object of one entry resolved to its key
C5_Witness ==
    /\ shape = "enum" /\ mode = "Owned" /\ node.kind = "Object"
    /\ Len(node.props) = 1 /\ outcome.ok /\ outcome.access.key = TextB

(***************************************************************************)
(* SpecTree: one parsed tree read into one target type by both entry       *)
(* points, from_expr over a borrowed root and from_str over an owned one.  *)
(***************************************************************************)
MaxWidth == 2

Hey == <<"h", "e", "y">>
Symbols == <<"+", "?", "*">>
Num123 == LitE(NumL(Num(FALSE, 0, 123, 0), Some(RawText(<<"d">>, Num(FALSE, 0, 123, 0)))))

\* SCRIPT_STR of the tests, parsed
ScriptTree ==
    ObjectE(<<
        KeyValue(IdentKey(Foo), Num123),
        KeyValue(StrKey(Bar), ArrayE(<<Elem(LitE(BoolL(TRUE))), Elem(LitE(BoolL(FALSE)))>>)),
        KeyValue(IdentKey(Qux), LitE(StrL(Hey))),
        KeyValue(IdentKey(Fruit), ArrayE(<<
            Elem(IdentE(Orange)),
            Elem(ObjectE(<<KeyValue(IdentKey(Apple), ObjectE(<<>>))>>)),
            Elem(ObjectE(<<KeyValue(StrKey(Pear),
                    ObjectE(<<KeyValue(IdentKey(FieldName), LitE(StrL(Symbols)))>>))>>))>>))>>)

\* expected_test_value of the tests
ExpectedTestValue ==
    Val("TestStruct",
        (Foo :> Val("Some", Val("int", IntOf("u64", Num(FALSE, 0, 123, 0)))))
        @@ (Bar :> Val("Vec", <<Val("bool", TRUE), Val("bool", FALSE)>>))
        @@ (Qux :> Val("String", Hey))
        @@ (Fruit :> Val("Vec", <<Val("TestEnum", VariantOf(Orange, NoFields)),
                                  Val("TestEnum", VariantOf(Apple, NoFields)),
                                  Val("TestEnum", VariantOf(Pear, (FieldName :> Val("String", Symbols))))>>)))

\* the numeric literals the parser produces: non-negative, with their source text
ParsedNumbers == {n \in NumberNodes : n.lit.raw.some /\ ~n.lit.value.neg}

TreeLeaves ==
    {LitE(BoolL(TRUE)), LitE(BoolL(FALSE)), LitE(NullL), LitE(BigIntL), LitE(RegexL),
     OtherE("Unary"), Num123}
    \cup {LitE(StrL(t)) : t \in {<<>>, TextA, Orange, Pear}}
    \cup {IdentE(t) : t \in {TextA, Orange, Apple}}
    \cup ParsedNumbers

TreeSlots ==
    {None, SpreadElem(IdentE(TextA)), Elem(LitE(BoolL(TRUE))), Elem(LitE(BoolL(FALSE))),
     Elem(Num1), Elem(LitE(StrL(TextA))), Elem(IdentE(Orange)), Elem(LitE(StrL(Orange))),
     Elem(ArrayE(<<Elem(LitE(NullL))>>)),
     Elem(ObjectE(<<KeyValue(IdentKey(Apple), ObjectE(<<>>))>>))}

TreeEntries ==
    {KeyValue(IdentKey(TextA), Num1), KeyValue(StrKey(TextA), LitE(StrL(TextB))),
     KeyValue(StrKey(TextB), LitE(BoolL(TRUE))), KeyValue(OtherKey("Num"), LitE(NullL)),
     KeyValue(IdentKey(FieldName), LitE(StrL(TextA))),
     KeyValue(IdentKey(Pear), ObjectE(<<KeyValue(IdentKey(FieldName), LitE(StrL(TextA)))>>)),
     KeyValue(IdentKey(Apple), ObjectE(<<>>)), KeyValue(IdentKey(Orange), LitE(NullL)),
     KeyValue(StrKey(Orange), ObjectE(<<>>)),
     KeyValue(IdentKey(Pear), LitE(NullL)),
     KeyValue(StrKey(Pear), ObjectE(<<KeyValue(IdentKey(FieldName), LitE(BoolL(TRUE)))>>)),
     KeyValue(IdentKey(Foo), ArrayE(<<None>>)),
     OtherProp("Shorthand"), SpreadProp(IdentE(TextA))}

Trees ==
    TreeLeaves \cup {ScriptTree}
    \cup {ArrayE(elems) : elems \in SeqsUpTo(TreeSlots, MaxWidth)}
    \cup {ObjectE(props) : props \in SeqsUpTo(TreeEntries, MaxWidth)}

Types ==
    {Ty("bool"), TInt("u8"), TInt("u64"), TInt("i64"), Ty("f64"), Ty("String"), Ty("&str"),
     Ty("&[u8]"), TyOf("Option", TInt("u64")), TyOf("Option", Ty("&str")),
     TyOf("Vec", Ty("bool")), TyOf("Vec", Ty("TestEnum")), TyOf("Vec", Ty("&str")),
     Ty("Value"), Ty("IgnoredAny"), Ty("TestEnum"), Ty("TestStruct")}

InitTree ==
    /\ node \in Trees
    /\ target \in Types
    /\ outcome = [borrowed |-> None, owned |-> None]
    /\ mode = Idle /\ shape = "none" /\ seq = Idle /\ map = Idle /\ log = <<>>

\* from_expr(&expr): T::deserialize(Deserializer { expr: Cow::Borrowed(expr) })
from_expr ==
    /\ ~outcome.borrowed.some
    /\ outcome' = [outcome EXCEPT !.borrowed = Some(Deserialize(target, Deserializer("Borrowed", node)))]
    /\ mode' = "Borrowed"
    /\ UNCHANGED <<node, shape, seq, map, log, target>>

\* from_str(text): the text is parsed to the tree, then
\* T::deserialize(Deserializer { expr: Cow::Owned(*expr) })
from_str ==
    /\ ~outcome.owned.some
    /\ outcome' = [outcome EXCEPT !.owned = Some(Deserialize(target, Deserializer("Owned", node)))]
    /\ mode' = "Owned"
    /\ UNCHANGED <<node, shape, seq, map, log, target>>

NextTree == from_expr \/ from_str

SpecTree == InitTree /\ [][NextTree]_vars

(***************************************************************************)
(* Claims on whole trees.                                                  *)
(***************************************************************************)
BothCalled == outcome.borrowed.some /\ outcome.owned.some

SameResult(a, b) == (a.ok /\ b.ok /\ a.v = b.v) \/ (~a.ok /\ ~b.ok)

RECURSIVE BorrowedOnly(_)
\* a type that holds a &str or a &[u8]
BorrowedOnly(ty) ==
    \/ ty.t \in {"&str", "&[u8]"}
    \/ ty.t \in {"Option", "Vec"} /\ BorrowedOnly(ty.of)

RECURSIVE InJson(_)
\* a tree built only from arrays, objects with identifier or string keys, booleans,
\* numbers, strings, null and bare identifiers
InJson(tree) ==
    CASE tree.kind = "Array" ->
            \A i \in 1..Len(tree.elems) :
                tree.elems[i].some /\ ~tree.elems[i].v.spread /\ InJson(tree.elems[i].v.expr)
      [] tree.kind = "Object" ->
            \A i \in 1..Len(tree.props) :
                PlainEntry(tree.props[i]) /\ InJson(tree.props[i].prop.value)
      [] tree.kind = "Lit" -> tree.lit.lk \in {"Bool", "Num", "Str", "Null"}
      [] tree.kind = "Ident" -> TRUE
      [] OTHER -> FALSE

U64Max == IntMax("u64")

\* a JSON parser's number: digits alone are an integer, a u64 if it fits and else a
\* float; a fraction or an exponent makes a float
JsonNumber(raw) ==
    IF ~Contains(raw.text, ".") /\ ~Contains(raw.text, "e") /\ Le(raw.denotes, U64Max)
    THEN Val("Number", NumberOf("PosInt", raw.denotes))
    ELSE Val("Number", NumberOf("Float", ToF64(raw.denotes)))

LastWith(props, key) ==
    props[CHOOSE i \in 1..Len(props) :
            /\ props[i].prop.key.text = key
            /\ \A j \in (i + 1)..Len(props) : props[j].prop.key.text # key]

RECURSIVE JsonOf(_)
\* the generic value of the tree's strict-JSON text: keys stringified, identifiers read
\* as strings, a key met twice keeping its last value
JsonOf(tree) ==
    CASE tree.kind = "Array" ->
            Val("Array", [i \in 1..Len(tree.elems) |-> JsonOf(tree.elems[i].v.expr)])
      [] tree.kind = "Object" ->
            Val("Object", [key \in {tree.props[i].prop.key.text : i \in 1..Len(tree.props)} |->
                              JsonOf(LastWith(tree.props, key).prop.value)])
      [] tree.kind = "Ident" -> Val("JString", tree.sym)
      [] IsLit(tree, "Bool") -> Val("Bool", tree.lit.b)
      [] IsLit(tree, "Null") -> Val("Null", Unit)
      [] IsLit(tree, "Str") -> Val("JString", tree.lit.text)
      [] IsLit(tree, "Num") -> JsonNumber(tree.lit.raw.v)

IsJson(called) == called.some => called.v = Ok(JsonOf(node))

\* C2: for every tree built only from arrays, objects with identifier or string keys,
\* booleans, numbers, strings, null and bare identifiers, reading it as the generic
\* value gives the value of its strict-JSON text: element order kept, every key and
\* value kept, each numeric literal the same number.
C2_AnyMatchesJson ==
    target = Ty("Value") /\ InJson(node) => IsJson(outcome.borrowed) /\ IsJson(outcome.owned)

IsOrange(tree) ==
    \/ tree.kind = "Ident" /\ tree.sym = Orange
    \/ IsLit(tree, "Str") /\ tree.lit.text = Orange

AllOrange(tree) ==
    /\ tree.kind = "Array"
    /\ \A i \in 1..Len(tree.elems) :
            tree.elems[i].some /\ ~tree.elems[i].v.spread /\ IsOrange(tree.elems[i].v.expr)

IsValue(called, v) == called.some => called.v = Ok(v)

OrangeValue == Val("TestEnum", VariantOf(Orange, NoFields))

\* C6: a bare identifier or string literal whose text names the unit variant Orange
\* of TestEnum is read as that variant by both calls, alone and as an element of an
\* array read as Vec<TestEnum>.
C6_BareTagIsUnitVariant ==
    /\ target = Ty("TestEnum") /\ IsOrange(node) =>
            /\ IsValue(outcome.borrowed, OrangeValue)
            /\ IsValue(outcome.owned, OrangeValue)
    /\ target = TyOf("Vec", Ty("TestEnum")) /\ AllOrange(node) =>
            /\ IsValue(outcome.borrowed, Val("Vec", [i \in 1..Len(node.elems) |-> OrangeValue]))
            /\ IsValue(outcome.owned, Val("Vec", [i \in 1..Len(node.elems) |-> OrangeValue]))

\* the bare identifier Orange read by both calls
C6_Witness ==
    /\ target = Ty("TestEnum") /\ node = IdentE(Orange)
    /\ BothCalled /\ outcome.owned.v.ok /\ outcome.borrowed.v.ok

(***************************************************************************)
(* Claims on the shapes "ignored" and "any".                               *)
(***************************************************************************)
\* C11: a request with the "ignored" shape succeeds and discards the node for every
\* expression node: regex and big-integer literals, integer literals outside the i64
\* range, arrays containing holes and unsupported expression forms included.
C11_IgnoredAlwaysSucceeds ==
    target = Ty("IgnoredAny") =>
        /\ IsValue(outcome.borrowed, Val("IgnoredAny", Unit))
        /\ IsValue(outcome.owned, Val("IgnoredAny", Unit))

(***************************************************************************)
(* Claims on the variants of an enum.                                      *)
(***************************************************************************)
\* an object whose single entry is keyed by the unit variant Orange
OrangeObject(tree) ==
    /\ tree.kind = "Object" /\ Len(tree.props) = 1
    /\ PlainEntry(tree.props[1]) /\ tree.props[1].prop.key.text = Orange

IsFailure(called) == called.some => ~called.v.ok

IsError(called, failure) == called.some => called.v = failure

IsSuccess(called) == called.some => called.v.ok

\* C12 as stated: a unit-variant request on a resolved enum always fails, when the tag
\* came from a single-key object, whatever the payload, and also when the tag was a
\* bare string or a bare identifier.
C12_UnitVariantAlwaysFails ==
    target = Ty("TestEnum") /\ (OrangeObject(node) \/ IsOrange(node)) =>
        IsFailure(outcome.borrowed) /\ IsFailure(outcome.owned)

\* C12: a unit-variant request fails with UnexpectedExpr of the payload when the tag
\* came from a single-key object, whatever the payload, null included; when the tag was
\* a bare string or a bare identifier it succeeds.
C12_UnitVariantFailsOnObject ==
    target = Ty("TestEnum") =>
        /\ OrangeObject(node) =>
            /\ IsError(outcome.borrowed, UnexpectedExpr(node.props[1].prop.value))
            /\ IsError(outcome.owned, UnexpectedExpr(node.props[1].prop.value))
        /\ IsOrange(node) => IsSuccess(outcome.borrowed) /\ IsSuccess(outcome.owned)

\* { Orange: null } refused by both calls
C12_Witness ==
    /\ target = Ty("TestEnum") /\ OrangeObject(node) /\ BothCalled
    /\ IsLit(node.props[1].prop.value, "Null")
    /\ Fails(outcome.borrowed.v, "UnexpectedExpr") /\ Fails(outcome.owned.v, "UnexpectedExpr")

(***************************************************************************)
(* Claims on mismatches.                                                   *)
(***************************************************************************)
PassThrough == {"option", "newtype_struct", "any", "ignored_any"}

InvalidTypeOf(r, kinds) ==
    ~r.ok /\ r.err = "Serde" /\ r.what = "invalid_type" /\ r.unexp.u \in kinds

\* C13: a node requested at a shape it does not satisfy fails with invalid_type naming
\* the node's kind, for every shape but option, newtype-struct, any and ignored: a null
\* literal at any shape but unit and unit-struct gives invalid_type(unit/option), an
\* array at any shape but seq, tuple and tuple-struct gives invalid_type(seq), an object
\* at any shape but map, struct and enum gives invalid_type(map); the shapes seq and
\* map included.
C13_MismatchIsInvalidType ==
    shape \in Shapes \ PassThrough =>
        /\ IsLit(node, "Null") /\ shape \notin {"unit", "unit_struct"} =>
                InvalidTypeOf(outcome, {"Unit", "Option"})
        /\ node.kind = "Array" /\ shape \notin {"seq", "tuple", "tuple_struct"} =>
                InvalidTypeOf(outcome, {"Seq"})
        /\ node.kind = "Object" /\ shape \notin {"map", "struct", "enum"} =>
                InvalidTypeOf(outcome, {"Map"})

NoMapping(tree) ==
    \/ tree.kind = "Other"
    \/ tree.kind = "Lit" /\ tree.lit.lk \in {"Regex", "JSXText", "BigInt"}

\* C14: under the "any" shape every numeric literal yields a value, an integer when
\* its text is classified as an integer (integer literals above i64::MAX included) and
\* a float otherwise; "any" fails only for regex, JSX-text and big-integer literals and
\* unsupported expression forms.
C14_AnyNumberYields ==
    shape = "any" =>
        /\ IsNumber /\ is_integer(node.lit) => outcome.ok /\ outcome.visit = "visit_int"
        /\ IsNumber /\ ~is_integer(node.lit) => outcome.ok /\ outcome.visit = "visit_f64"
        /\ ~outcome.ok => NoMapping(node)

(***************************************************************************)
(* Claims on the ownership mode.                                           *)
(***************************************************************************)
\* the child Deserializer of a pull, if it made one, has the mode of the root
ChildKeepsMode(r) == r.ok /\ r.some => r.de.mode = mode

SeqKeepsMode(access) ==
    /\ access.mode = mode
    /\ SeqPull(access).seq.mode = mode
    /\ ChildKeepsMode(SeqPull(access).res)

PendingKeepsMode(m) ==
    /\ m.mode = mode
    /\ m.value.some => m.value.v.mode = mode /\ ChildKeepsMode(MapPullValue(m).res)

MapKeepsMode(access) == access.mode = mode /\ PendingKeepsMode(MapPullKey(access).map)

EnumKeepsMode(access) ==
    access.ea = "Enum" =>
        /\ access.mode = mode
        /\ access.value.mode = mode
        /\ ChildKeepsMode(newtype_variant_seed(variant_seed(access).variant))

\* C15: every child Deserializer made by a pass-through shape (option, newtype-struct,
\* any) or by the Seq, Map or Enum accessor a request builds (element, pending map
\* value, enum payload) has the ownership mode of the Deserializer that was asked, and
\* so has the accessor itself, before and after a pull.
C15_ModeIsInherited ==
    outcome.ok =>
        /\ outcome.visit \in {"visit_some", "visit_newtype_struct"} =>
                outcome.de = Deserializer(mode, node)
        /\ outcome.visit = "visit_seq" => SeqKeepsMode(outcome.access)
        /\ outcome.visit = "visit_map" => MapKeepsMode(outcome.access)
        /\ outcome.visit = "visit_enum" => EnumKeepsMode(outcome.access)

\* an owned object asked as an enum: its payload is an owned Deserializer
C15_Witness ==
    /\ mode = "Owned" /\ shape = "enum" /\ outcome.ok /\ outcome.access.ea = "Enum"
    /\ outcome.access.value.mode = "Owned"

(***************************************************************************)
(* Claims on spread elements.                                              *)
(***************************************************************************)
PulledAtSpread ==
    /\ log # <<>>
    /\ LastOp.op = "next_element"
    /\ seq_size_hint(LastOp.before) > 0
    /\ FirstSlotBefore.some
    /\ FirstSlotBefore.v.spread

\* C16: a pull whose first remaining slot is a present element with the spread flag
\* set fails with UnexpectedSpread in both ownership modes; the inner expression of
\* the spread is not dispatched as if it were a plain element.
C16_SpreadElementFails == PulledAtSpread => Fails(LastOp.res, "UnexpectedSpread")

(***************************************************************************)
(* Claims on the failures of the two modes.                                *)
(***************************************************************************)
SameError(a, b) == ~a.ok /\ ~b.ok /\ a.err = b.err

\* C17: whenever reading a tree into a target type fails, the borrowed and the owned
\* call fail with the same Error variant: for a map entry or a single-entry enum object
\* whose key is neither an identifier nor a string, for holes, spreads, properties that
\* are no key-value and unsupported expressions.
C17_SameErrorVariant ==
    /\ BothCalled /\ ~BorrowedOnly(target)
    /\ ~outcome.borrowed.v.ok \/ ~outcome.owned.v.ok
    => SameError(outcome.borrowed.v, outcome.owned.v)

(***************************************************************************)
(* Claims on exponent notation.                                            *)
(***************************************************************************)
\* a literal such as 1e-1 or 15e-1: an exponent, no decimal point, no whole value
FractionByExponent == NoPoint /\ Contains(node.lit.raw.v.text, "e") /\ Denoted.h = 1

InRangeOf(ty, x) == Le(IntMin(ty), x) /\ Le(x, IntMax(ty))

\* C18: a numeric literal written with an exponent and no decimal point that denotes
\* no whole number is classified as an integer: every integer shape whose range
\* [MIN, MAX] contains its floating value accepts it, giving the value cut toward
\* zero, and under the shape "any" it is dispatched as an i64, not as a float.
C18_ExponentFractionIsInteger ==
    FractionByExponent =>
        /\ shape \in IntTypes /\ InRangeOf(shape, node.lit.value) =>
                Accepted(outcome, shape, CastInt(node.lit.value, shape))
        /\ shape = "any" => Accepted(outcome, "i64", CastInt(node.lit.value, "i64"))

\* 15e-1 asked as u8 is 1
C18_Witness ==
    /\ FractionByExponent /\ Denoted = Num(FALSE, 0, 1, 1)
    /\ shape = "u8" /\ Accepted(outcome, "u8", Num(FALSE, 0, 1, 0))

(***************************************************************************)
(* Claims on the propagation of failures.                                  *)
(***************************************************************************)
\* what reading one slot of an array as ty gives
SlotResult(m, ty, slot) ==
    IF slot.some THEN Deserialize(ty, Deserializer(m, slot.v.expr))
    ELSE InvalidArrayElement(None)

\* slot i is the first in document order whose reading fails
FirstFailingSlot(m, ty, elems, i) ==
    /\ ~SlotResult(m, ty, elems[i]).ok
    /\ \A j \in 1..(i - 1) : SlotResult(m, ty, elems[j]).ok

\* the type of the elements and of the map values of a target that reads them all alike
PartType(ty) == IF ty.t = "Vec" THEN ty.of ELSE ty

ValueResult(m, ty, entry) == Deserialize(ty, Deserializer(m, entry.prop.value))

\* entry i is the first in document order whose value fails, after whole entries
FirstFailingValue(m, ty, props, i) ==
    /\ PlainEntry(props[i]) /\ ~ValueResult(m, ty, props[i]).ok
    /\ \A j \in 1..(i - 1) : PlainEntry(props[j]) /\ ValueResult(m, ty, props[j]).ok

\* the object { Pear: payload }
PearObject(tree) ==
    /\ tree.kind = "Object" /\ Len(tree.props) = 1
    /\ PlainEntry(tree.props[1]) /\ tree.props[1].prop.key.text = Pear

\* the payload is an object whose first entry is the field name
NameFirst(payload) ==
    /\ payload.kind = "Object" /\ Len(payload.props) >= 1
    /\ PlainEntry(payload.props[1]) /\ payload.props[1].prop.key.text = FieldName

ElementFailureReturned(m, r) ==
    target.t \in {"Vec", "Value", "IgnoredAny"} /\ node.kind = "Array" =>
        \A i \in 1..Len(node.elems) :
            FirstFailingSlot(m, PartType(target), node.elems, i) =>
                r = SlotResult(m, PartType(target), node.elems[i])

MapValueFailureReturned(m, r) ==
    target.t \in {"Value", "IgnoredAny"} /\ node.kind = "Object" =>
        \A i \in 1..Len(node.props) :
            FirstFailingValue(m, target, node.props, i) =>
                r = ValueResult(m, target, node.props[i])

OptionFailureReturned(m, r) ==
    target.t = "Option" /\ ~Deserialize(target.of, Deserializer(m, node)).ok =>
        IF IsLit(node, "Null") THEN r = Ok(Val("None", Unit))
        ELSE r = Deserialize(target.of, Deserializer(m, node))

PayloadFailureReturned(m, r) ==
    target = Ty("TestEnum") /\ PearObject(node) =>
        /\ node.props[1].prop.value.kind # "Object" =>
                r = UnexpectedExpr(node.props[1].prop.value)
        /\ NameFirst(node.props[1].prop.value)
           /\ ~ValueResult(m, Ty("String"), node.props[1].prop.value.props[1]).ok =>
                r = ValueResult(m, Ty("String"), node.props[1].prop.value.props[1])

FailureReturned(m, called) ==
    called.some =>
        /\ ElementFailureReturned(m, called.v)
        /\ MapValueFailureReturned(m, called.v)
        /\ OptionFailureReturned(m, called.v)
        /\ PayloadFailureReturned(m, called.v)

\* C19: failures propagate unchanged and at once: when reading an element of an
\* array, a value of a map, the inner value of an option or the payload of an enum
\* fails, the whole call returns that same failure, and it is the failure of the first
\* slot or entry in document order that fails, whatever follows it in the tree.
C19_FirstFailureReturned ==
    /\ FailureReturned("Borrowed", outcome.borrowed)
    /\ FailureReturned("Owned", outcome.owned)

\* [true, 'A'] read as Vec<bool>: both calls return the refusal of the second element
C19_Witness ==
    /\ BothCalled /\ target = TyOf("Vec", Ty("bool"))
    /\ node = ArrayE(<<Elem(LitE(BoolL(TRUE))), Elem(LitE(StrL(TextA)))>>)
    /\ outcome.borrowed.v = SerdeInvalidType(UnexpStr(TextA), "boolean")
    /\ outcome.owned.v = SerdeInvalidType(UnexpStr(TextA), "boolean")

(***************************************************************************)
(* Claims on keys asked for in a row.                                      *)
(***************************************************************************)
YieldedKey(op) == op.op = "next_key" /\ op.res.ok /\ op.res.some

\* two keys were yielded in a row from the start, no value asked for in between
TwoKeys == Len(log) >= 2 /\ YieldedKey(log[1]) /\ YieldedKey(log[2])

\* C20: when next_key is called twice with no next_value in between and both calls
\* yield a key, the value of the first entry is dropped and the pending value is that
\* of the second entry: the next_value that follows dispatches the value of the second
\* entry, the keys yielded are those of the first and of the second entry, each once,
\* and the size hint has dropped by two; in both ownership modes.
C20_SecondKeyReplacesPending ==
    TwoKeys =>
        /\ PlainEntry(node.props[1]) /\ log[1].res.key = node.props[1].prop.key.text
        /\ PlainEntry(node.props[2]) /\ log[2].res.key = node.props[2].prop.key.text
        /\ map_size_hint(log[2].before) = Len(node.props) - 1
        /\ Len(log) = 2 =>
                /\ map.value = Some(Deserializer(mode, node.props[2].prop.value))
                /\ map_size_hint(map) = Len(node.props) - 2
        /\ Len(log) >= 3 /\ log[3].op = "next_value" =>
                /\ \E sh \in SeedShapes :
                        log[3].res = Dispatch(Deserializer(mode, node.props[2].prop.value), sh)
                /\ map_size_hint(log[3].before) = Len(node.props) - 2
                /\ Len(log) = 3 => ~map.value.some /\ map_size_hint(map) = Len(node.props) - 2

\* an owned map asked for two keys and then a value: the value of the second entry
C20_Witness ==
    /\ TwoKeys /\ mode = "Owned" /\ Len(log) = 3 /\ log[3].op = "next_value"
    /\ node.props[1].prop.value # node.props[2].prop.value
    /\ outcome = Dispatch(Deserializer("Owned", node.props[2].prop.value), "any")

(***************************************************************************)
(* Claims on literals without source text.                                 *)
(***************************************************************************)
\* a Number node built by hand: raw is None
NoRaw == IsNumber /\ ~node.lit.raw.some

\* C21: a numeric literal that carries no source text is classified as no integer,
\* whatever its value: each of the ten integer conversions returns None for it and the
\* integer shapes refuse it, its descriptor in a diagnostic is Float of its value, and
\* the shape "any" dispatches it as an f64.
C21_NoRawIsFloat ==
    NoRaw =>
        /\ ~is_integer(node.lit)
        /\ \A ty \in IntTypes : number_to(node.lit, ty) = None
        /\ number_to_unexpected(node.lit) = Some(UnexpNum("Float", node.lit.value))
        /\ shape \in IntTypes =>
                outcome = SerdeInvalidType(UnexpNum("Float", node.lit.value), shape)
        /\ shape = "any" =>
                outcome = [ok |-> TRUE, visit |-> "visit_f64", value |-> node.lit.value]

\* the hand-built literal of value 1 asked as u8 is refused as the float 1
C21_Witness ==
    /\ NoRaw /\ node.lit.value = Num(FALSE, 0, 1, 0)
    /\ shape = "u8"
    /\ outcome = SerdeInvalidType(UnexpNum("Float", Num(FALSE, 0, 1, 0)), "u8")

====
